---- MODULE Spec2Model ----
(***************************************************************************)
(* Model of the post repository of the blog (lib/api.ts): the content      *)
(* directory _posts, the slug <-> filename transforms, getPostFromSlug,    *)
(* getAllPosts and getAllSlugs.                                            *)
(*                                                                         *)
(* Strings that the code takes apart (filenames, slugs) are sequences of   *)
(* one-character strings.  A date is the Date object that gray-matter      *)
(* builds from a front-matter line `date: YYYY-MM-DD`, as its day number.  *)
(***************************************************************************)
EXTENDS Integers, Sequences, FiniteSets, Bags, TLC

(* ------------------------------ bounds -------------------------------- *)
\* most files in the content directory
MaxFiles == 3
\* dates are the days 1..MaxDate
MaxDate == 2
\* longest string fed to the slug <-> filename transforms
MaxLen == 4
\* the calendar is gone through from this many days before the first post
MaxDaysBack == 366

(* ------------------------------ strings ------------------------------- *)
\* the fixed extension: the regular expression /\.md$/ and the template `${slug}.md`
Ext == <<".", "m", "d">>

Alphabet == {"a", ".", "m", "d"}

Strings == UNION { [1..n -> Alphabet] : n \in 0..MaxLen }

EndsWith(s, suffix) ==
  /\ Len(s) >= Len(suffix)
  /\ SubSeq(s, Len(s) - Len(suffix) + 1, Len(s)) = suffix

\* the first ".md" of the name is removed wherever it stands (/\.md/ without $)
RECURSIVE getSlugFromFilenameUnanchored(_)
getSlugFromFilenameUnanchored(filename) ==
  IF Len(filename) < Len(Ext) THEN filename
  ELSE IF SubSeq(filename, 1, Len(Ext)) = Ext
    THEN SubSeq(filename, Len(Ext) + 1, Len(filename))
    ELSE <<Head(filename)>> \o getSlugFromFilenameUnanchored(Tail(filename))

\* filename.replace(/\.md$/, ''): only a match at the very end is removed
getSlugFromFilename(filename) ==
  IF EndsWith(filename, Ext)
    THEN SubSeq(filename, 1, Len(filename) - Len(Ext))
    ELSE filename

\* `${slug}.md`
getFilenameFromSlug(slug) == slug \o Ext

(* ------------------------- the content directory ---------------------- *)
Stems == { <<"a">>, <<"b">>, <<"c">> }

\* names a directory entry can have: <stem>.md, and one name without the extension
FileNames == { getFilenameFromSlug(s) : s \in Stems } \cup { <<"a">> }

NoTitle == "undefined"
Titles == {"T"}
\* day number (days since 1970-01-01) of the date of the first post, 2024-08-09
FirstPostDay == 19944
\* a Date object holds its time value, here in whole days: gray-matter reads
\* `date: YYYY-MM-DD` as midnight UTC; a front matter without date gives undefined
Dates == { <<FirstPostDay + t>> : t \in 1..MaxDate }
NoDate == <<>>
valueOf(date) == date[1]
\* the dates the calendar is gone through with: the year before the first post too
CalendarDates ==
  { <<day>> : day \in (FirstPostDay - MaxDaysBack)..(FirstPostDay + MaxDate) }
\* a text is its lines; a markdown body may hold a --- line (a horizontal rule)
Body == << <<"body">>, <<"---">>, <<"more">> >>
EditedBody == << <<"edited">> >>
Bodies == {Body}

\* a file of the directory: its name, and the title, the date and the markdown
\* body that its text holds
Files == [name : FileNames, title : Titles \cup {NoTitle},
          date : Dates \cup {NoDate}, content : Bodies]

Names(d) == { d[i].name : i \in DOMAIN d }

\* a directory is its entries in the order readdirSync enumerates them; no two
\* entries of a directory have the same name
IsDirectory(d) ==
  /\ Len(d) <= MaxFiles
  /\ \A i \in DOMAIN d : d[i] \in Files
  /\ \A i, j \in DOMAIN d : d[i].name = d[j].name => i = j

\* fs.readdirSync(postsDirectory), of a directory that can be listed
readdirSync(d) == [i \in DOMAIN d |-> d[i].name]

\* what keeps a directory from being listed: it is missing, or it is unreadable
DirErrors == {"ENOENT", "EACCES"}

\* the slug itself is taken for the entry name
getFilepathFromSlugBare(slug) == slug

\* join(postsDirectory, getFilenameFromSlug(slug)): the entry name the path reaches
getFilepathFromSlug(slug) == getFilenameFromSlug(slug)

Thrown(e) == [ok |-> FALSE, err |-> e]
Value(v) == [ok |-> TRUE, val |-> v]

\* the error is caught and an empty listing stands in for it
ListingOrEmpty(err, d) == Value(IF err = "none" THEN readdirSync(d) ELSE <<>>)

\* fs.readdirSync(postsDirectory): the names, or the error thrown
Listing(err, d) == IF err = "none" THEN Value(readdirSync(d)) ELSE Thrown(err)

\* the line that opens and closes the front matter
Delimiter == <<"---">>

\* the text of a file, line by line: the front matter between two --- lines,
\* with a line for the title and one for the date when it has them, then the body
FileText(f) ==
  <<Delimiter>>
    \o (IF f.title = NoTitle THEN <<>> ELSE << <<"title", f.title>> >>)
    \o (IF f.date = NoDate THEN <<>> ELSE << <<"date", f.date>> >>)
    \o <<Delimiter>>
    \o f.content

\* fs.readFileSync(path, 'utf8')
readFileSync(d, path) ==
  IF path \in Names(d)
    THEN Value(FileText(CHOOSE f \in { d[i] : i \in DOMAIN d } : f.name = path))
    ELSE Thrown("ENOENT")

\* the value the YAML block gives to key, undefined when no line has the key
Lookup(block, key, undefined) ==
  IF \E i \in DOMAIN block : block[i][1] = key
    THEN block[CHOOSE i \in DOMAIN block : block[i][1] = key][2]
    ELSE undefined

\* the front matter is taken to end at the last --- line of the text
matterToLastDelimiter(str) ==
  IF str = <<>> \/ str[1] # Delimiter
    THEN [data |-> [title |-> NoTitle, date |-> NoDate], content |-> str]
    ELSE LET closes == { i \in 2..Len(str) : str[i] = Delimiter }
             closeIndex == IF closes = {} THEN Len(str) + 1
                           ELSE CHOOSE i \in closes : \A j \in closes : j <= i
             block == SubSeq(str, 2, closeIndex - 1) IN
         [data |-> [title |-> Lookup(block, "title", NoTitle),
                    date |-> Lookup(block, "date", NoDate)],
          content |-> SubSeq(str, closeIndex + 1, Len(str))]

\* matter(str) of gray-matter: a text that opens with --- has its front matter up
\* to the first --- line after that (up to the end when there is none); data is
\* the YAML in between, content is the text after the closing line
matter(str) ==
  IF str = <<>> \/ str[1] # Delimiter
    THEN [data |-> [title |-> NoTitle, date |-> NoDate], content |-> str]
    ELSE LET closes == { i \in 2..Len(str) : str[i] = Delimiter }
             closeIndex == IF closes = {} THEN Len(str) + 1
                           ELSE CHOOSE i \in closes : \A j \in closes : i <= j
             block == SubSeq(str, 2, closeIndex - 1) IN
         [data |-> [title |-> Lookup(block, "title", NoTitle),
                    date |-> Lookup(block, "date", NoDate)],
          content |-> SubSeq(str, closeIndex + 1, Len(str))]

(* ------------------------------- posts -------------------------------- *)
(* Date.prototype.toISOString, by the time functions of ECMAScript (Day,     *)
(* DayFromYear, YearFromTime, MonthFromTime, DateFromTime) on whole days.    *)
DaysInYear(y) ==
  IF y % 4 # 0 THEN 365
  ELSE IF y % 100 # 0 THEN 366
  ELSE IF y % 400 # 0 THEN 365 ELSE 366

DayFromYear(y) ==
  365 * (y - 1970) + ((y - 1969) \div 4) - ((y - 1901) \div 100) + ((y - 1601) \div 400)

\* the largest y with DayFromYear(y) <= day, for day >= 0
YearFromTime(day) ==
  CHOOSE y \in (1970 + (day \div 366))..(1970 + (day \div 365)) :
    DayFromYear(y) <= day /\ day < DayFromYear(y + 1)

DayWithinYear(day) == day - DayFromYear(YearFromTime(day))

InLeapYear(day) == IF DaysInYear(YearFromTime(day)) = 366 THEN 1 ELSE 0

\* first day within the year of month m (0 = January), 12 for the end of the year
MonthStart(m, leap) ==
  <<0, 31, 59, 90, 120, 151, 181, 212, 243, 273, 304, 334, 365>>[m + 1]
    + (IF m >= 2 THEN leap ELSE 0)

MonthFromTime(day) ==
  CHOOSE m \in 0..11 :
    /\ MonthStart(m, InLeapYear(day)) <= DayWithinYear(day)
    /\ DayWithinYear(day) < MonthStart(m + 1, InLeapYear(day))

DateFromTime(day) ==
  DayWithinYear(day) - MonthStart(MonthFromTime(day), InLeapYear(day)) + 1

DigitChars == <<"0", "1", "2", "3", "4", "5", "6", "7", "8", "9">>

RECURSIVE Power10(_)
Power10(n) == IF n = 0 THEN 1 ELSE 10 * Power10(n - 1)

\* n in decimal, padded with zeros to width characters
Pad(n, width) ==
  [i \in 1..width |-> DigitChars[((n \div Power10(width - i)) % 10) + 1]]

\* YYYY-MM-DDTHH:mm:ss.sssZ; a year beyond 9999 is written with a sign and six digits
toISOString(date) ==
  LET day == valueOf(date)
      year == YearFromTime(day) IN
  (IF year <= 9999 THEN Pad(year, 4) ELSE <<"+">> \o Pad(year, 6))
    \o <<"-">> \o Pad(MonthFromTime(day) + 1, 2)
    \o <<"-">> \o Pad(DateFromTime(day), 2)
    \o <<"T", "0", "0", ":", "0", "0", ":", "0", "0", ".", "0", "0", "0", "Z">>

\* toISOString of every date of the model, computed once
ISOStrings == [date \in CalendarDates |-> toISOString(date)]

\* String.prototype.substring(start, end), 0-based, end exclusive
substring(str, start, end) ==
  SubSeq(str, start + 1, IF end < Len(str) THEN end ELSE Len(str))

\* a missing date is given an empty text instead of throwing (date?.toISOString() ?? '')
getFriendlyDateLenient(date) ==
  IF date = NoDate
    THEN Value(<<>>)
    ELSE Value(substring(ISOStrings[date], 0, 10))

\* the month is taken as getUTCMonth() gives it, counted from 0
getFriendlyDateMonthFromZero(date) ==
  IF date = NoDate
    THEN Thrown("TypeError")
    ELSE LET day == valueOf(date) IN
         Value(Pad(YearFromTime(day), 4) \o <<"-">> \o Pad(MonthFromTime(day), 2)
                 \o <<"-">> \o Pad(DateFromTime(day), 2))

\* date.toISOString().substring(0, 10): the calendar day of the Date, as text;
\* a date that is no Date object (undefined) has no toISOString and the call throws
getFriendlyDate(date) ==
  IF date = NoDate
    THEN Thrown("TypeError")
    ELSE Value(substring(ISOStrings[date], 0, 10))

\* remark().use(html).process(markdown), then toString()
markdownToHtml(markdown) == <<"<p>", markdown, "</p>">>

Pending == <<"pending">>

\* the slug of the record is the name of the file read, not the argument
PostFieldsSlugOfFile(d, slug) ==
  LET fileContent == readFileSync(d, getFilepathFromSlug(slug)) IN
  IF ~fileContent.ok THEN fileContent
  ELSE LET data == matter(fileContent.val).data
           content == matter(fileContent.val).content
           friendlyDate == getFriendlyDate(data.date) IN
       IF ~friendlyDate.ok THEN friendlyDate
       ELSE Value([title |-> data.title,
                   date |-> data.date,
                   slug |-> getFilepathFromSlug(slug),
                   friendlyDate |-> friendlyDate.val,
                   content |-> content,
                   contentHtml |-> Pending])

\* getPostFromSlug up to its await: read the file, split it with matter and build
\* the fields of the record in the order the object literal lists them
PostFields(d, slug) ==
  LET fileContents == readFileSync(d, getFilepathFromSlug(slug)) IN
  IF ~fileContents.ok THEN fileContents
  ELSE LET data == matter(fileContents.val).data
           content == matter(fileContents.val).content
           friendlyDate == getFriendlyDate(data.date) IN
       IF ~friendlyDate.ok THEN friendlyDate
       ELSE Value([title |-> data.title,
                   date |-> data.date,
                   slug |-> slug,
                   friendlyDate |-> friendlyDate.val,
                   content |-> content,
                   contentHtml |-> Pending])

\* the record once the awaited markdownToHtml(content) has settled
Rendered(post) == [post EXCEPT !.contentHtml = markdownToHtml(post.content)]

\* the comparison is turned around (<): ascending dates
CompareAscending(post1, post2) ==
  IF valueOf(post1.date) < valueOf(post2.date) THEN -1 ELSE 1

\* equal dates count as "post1 first" (>=)
CompareTiesFirst(post1, post2) ==
  IF valueOf(post1.date) >= valueOf(post2.date) THEN -1 ELSE 1

\* the usual three-way comparator: 0 for equal dates
CompareThreeWay(post1, post2) ==
  IF valueOf(post1.date) > valueOf(post2.date) THEN -1
  ELSE IF valueOf(post1.date) = valueOf(post2.date) THEN 0 ELSE 1

\* the comparator handed to sort: (post1, post2) => (post1.date > post2.date ? -1 : 1)
Compare(post1, post2) ==
  IF valueOf(post1.date) > valueOf(post2.date) THEN -1 ELSE 1

(* Array.prototype.sort as the engine that runs the build computes it (V8,   *)
(* TimSort).  An array shorter than 64 elements is one run: the leading run  *)
(* is counted, reversed when it is strictly descending, and the rest is      *)
(* placed by binary insertion.                                               *)
ReverseRange(a, n) ==
  [i \in DOMAIN a |-> IF i <= n THEN a[n + 1 - i] ELSE a[i]]

RECURSIVE RunLength(_, _, _)
RunLength(a, isDescending, k) ==
  IF k = Len(a) THEN k
  ELSE LET order == Compare(a[k + 1], a[k]) IN
       IF isDescending
         THEN IF order >= 0 THEN k ELSE RunLength(a, isDescending, k + 1)
         ELSE IF order < 0 THEN k ELSE RunLength(a, isDescending, k + 1)

\* <<array with its leading run made ascending, length of that run>>, Len(a) >= 2
CountAndMakeRun(a) ==
  LET isDescending == Compare(a[2], a[1]) < 0
      runLength == RunLength(a, isDescending, 2) IN
  <<IF isDescending THEN ReverseRange(a, runLength) ELSE a, runLength>>

\* where pivot belongs among a[left..right-1] (1-based, right exclusive)
RECURSIVE InsertionPoint(_, _, _, _)
InsertionPoint(a, pivot, left, right) ==
  IF left >= right THEN left
  ELSE LET mid == left + ((right - left) \div 2) IN
       IF Compare(pivot, a[mid]) < 0
         THEN InsertionPoint(a, pivot, left, mid)
         ELSE InsertionPoint(a, pivot, mid + 1, right)

InsertAt(a, from, to) ==
  [i \in DOMAIN a |->
     IF i < to \/ i > from THEN a[i]
     ELSE IF i = to THEN a[from] ELSE a[i - 1]]

\* a[1..start-1] is sorted; place a[start], a[start+1], ... one by one
RECURSIVE BinaryInsertionSort(_, _)
BinaryInsertionSort(a, start) ==
  IF start > Len(a) THEN a
  ELSE BinaryInsertionSort(
         InsertAt(a, start, InsertionPoint(a, a[start], 1, start)), start + 1)

\* posts.sort(comparator)
ArraySort(a) ==
  IF Len(a) < 2 THEN a
  ELSE LET run == CountAndMakeRun(a) IN BinaryInsertionSort(run[1], run[2] + 1)

\* only the names that end in .md are mapped (a filter put before the map)
RECURSIVE SlugsOfMarkdownOnly(_)
SlugsOfMarkdownOnly(filenames) ==
  IF filenames = <<>> THEN <<>>
  ELSE (IF EndsWith(Head(filenames), Ext)
          THEN <<getSlugFromFilename(Head(filenames))>> ELSE <<>>)
       \o SlugsOfMarkdownOnly(Tail(filenames))

\* filenames.map((filename) => getSlugFromFilename(filename))
SlugsOf(filenames) == [i \in DOMAIN filenames |-> getSlugFromFilename(filenames[i])]

(* ------------------------------- state -------------------------------- *)
VARIABLES
  dir,        \* the entries of the content directory _posts
  dirError,   \* "none", or the error that listing the directory raises
  call,       \* the function running or last run
  pc,         \* where that call is: "idle", "loop", "await", "returned", "threw"
  arg,        \* the string argument of the call
  filenames,  \* getAllPosts: the listing it took
  idx,        \* getAllPosts: how many filenames the for-of loop has gone through
  posts,      \* getAllPosts: the array it pushes to
  pending,    \* the record whose markdownToHtml is awaited
  result,     \* the value returned, or the error thrown
  log,        \* what the call has done to the file system so far, in order
  other       \* the frame of a second invocation, suspended while this one runs

vars == <<dir, dirError, call, pc, arg, filenames, idx, posts, pending, result,
          log, other>>

None == <<>>

\* slugs a caller can pass: those of the directory's possible names, and one more
SlugArgs == { getSlugFromFilename(f) : f \in FileNames } \cup { <<"z">> }

Free == pc \in {"idle", "returned", "threw"}

\* the frame of an invocation that has not been made
NoCall ==
  [call |-> "none", pc |-> "idle", arg |-> None, filenames |-> None, idx |-> 0,
   posts |-> None, pending |-> None, result |-> None, log |-> <<>>]

Init ==
  /\ dir = <<>>
  /\ dirError \in {"none"} \cup DirErrors
  /\ call = "none"
  /\ pc = "idle"
  /\ arg = None
  /\ filenames = None
  /\ idx = 0
  /\ posts = None
  /\ pending = None
  /\ result = None
  /\ log = <<>>
  /\ other = NoCall

\* before the build runs, the author puts one more file into the directory
WriteFile(f) ==
  /\ call = "none"
  /\ dirError = "none"
  /\ IsDirectory(Append(dir, f))
  /\ dir' = Append(dir, f)
  /\ UNCHANGED <<dirError, call, pc, arg, filenames, idx, posts, pending, result>>
  /\ UNCHANGED <<log, other>>

\* getAllSlugs(): synchronous
getAllSlugs ==
  /\ Free
  /\ call' = "getAllSlugs"
  /\ LET listed == Listing(dirError, dir) IN
       IF listed.ok
         THEN /\ pc' = "returned" /\ result' = SlugsOf(listed.val)
         ELSE /\ pc' = "threw" /\ result' = listed.err
  /\ arg' = None /\ filenames' = None /\ idx' = 0 /\ posts' = None /\ pending' = None
  /\ UNCHANGED <<dir, dirError>>
  /\ log' = << <<"readdir">> >>
  /\ UNCHANGED other

\* the record returned last for a slug is kept and handed out again for that slug
getPostFromSlugMemo(slug) ==
  /\ Free
  /\ call' = "getPostFromSlug"
  /\ arg' = slug
  /\ filenames' = None /\ idx' = 0 /\ posts' = None
  /\ IF call = "getPostFromSlug" /\ pc = "returned" /\ arg = slug
       THEN /\ pc' = "await"
            /\ pending' = [result EXCEPT !.contentHtml = Pending]
            /\ result' = None
       ELSE LET fields == PostFields(dir, slug) IN
            IF fields.ok
              THEN /\ pc' = "await" /\ pending' = fields.val /\ result' = None
              ELSE /\ pc' = "threw" /\ pending' = None /\ result' = fields.err
  /\ UNCHANGED <<dir, dirError>>
  /\ log' = IF call = "getPostFromSlug" /\ pc = "returned" /\ arg = slug
            THEN <<>> ELSE << <<"read", getFilepathFromSlug(slug)>> >>
  /\ UNCHANGED other

\* the record returned last is kept and handed out again, whatever the slug
getPostFromSlugLastRecord(slug) ==
  /\ Free
  /\ call' = "getPostFromSlug"
  /\ arg' = slug
  /\ filenames' = None /\ idx' = 0 /\ posts' = None
  /\ IF call = "getPostFromSlug" /\ pc = "returned"
       THEN /\ pc' = "await"
            /\ pending' = [result EXCEPT !.contentHtml = Pending]
            /\ result' = None
            /\ log' = <<>>
       ELSE LET fields == PostFields(dir, slug) IN
            /\ log' = << <<"read", getFilepathFromSlug(slug)>> >>
            /\ IF fields.ok
                 THEN /\ pc' = "await" /\ pending' = fields.val /\ result' = None
                 ELSE /\ pc' = "threw" /\ pending' = None /\ result' = fields.err
  /\ UNCHANGED <<dir, dirError, other>>

\* getPostFromSlug(slug), up to the await or to the exception
getPostFromSlug(slug) ==
  /\ Free
  /\ call' = "getPostFromSlug"
  /\ arg' = slug
  /\ filenames' = None /\ idx' = 0 /\ posts' = None
  /\ LET fields == PostFields(dir, slug) IN
       IF fields.ok
         THEN /\ pc' = "await" /\ pending' = fields.val /\ result' = None
         ELSE /\ pc' = "threw" /\ pending' = None /\ result' = fields.err
  /\ UNCHANGED <<dir, dirError>>
  /\ log' = << <<"read", getFilepathFromSlug(slug)>> >>
  /\ UNCHANGED other

\* getPostFromSlug resumes after markdownToHtml and returns the record
getPostFromSlugReturn ==
  /\ call = "getPostFromSlug" /\ pc = "await"
  /\ pc' = "returned"
  /\ result' = Rendered(pending)
  /\ pending' = None
  /\ UNCHANGED <<dir, dirError, call, arg, filenames, idx, posts>>
  /\ UNCHANGED <<log, other>>

\* getAllPosts(): list the directory, start with no posts
getAllPosts ==
  /\ Free
  /\ call' = "getAllPosts"
  /\ LET listed == Listing(dirError, dir) IN
       IF listed.ok
         THEN /\ pc' = "loop" /\ filenames' = listed.val
              /\ posts' = <<>> /\ result' = None
         ELSE /\ pc' = "threw" /\ filenames' = None
              /\ posts' = None /\ result' = listed.err
  /\ idx' = 0
  /\ arg' = None /\ pending' = None
  /\ UNCHANGED <<dir, dirError>>
  /\ log' = << <<"readdir">> >>
  /\ UNCHANGED other

\* a failed fetch is caught and the loop goes on to the next filename
getPostFromFilenameCatches ==
  /\ call = "getAllPosts" /\ pc = "loop"
  /\ idx < Len(filenames)
  /\ LET fields == PostFields(dir, getSlugFromFilename(filenames[idx + 1])) IN
       IF fields.ok
         THEN /\ pc' = "await" /\ pending' = fields.val /\ idx' = idx
         ELSE /\ pc' = "loop" /\ pending' = None /\ idx' = idx + 1
  /\ UNCHANGED <<dir, dirError, call, arg, filenames, posts, result>>
  /\ log' = Append(log, <<"read", getFilepathFromSlug(getSlugFromFilename(filenames[idx + 1]))>>)
  /\ UNCHANGED other

\* a fetch that fails is tried once more before the exception is let through
getPostFromFilenameRetries ==
  /\ call = "getAllPosts" /\ pc = "loop"
  /\ idx < Len(filenames)
  /\ LET filename == filenames[idx + 1]
         path == getFilepathFromSlug(getSlugFromFilename(filename))
         fields == PostFields(dir, getSlugFromFilename(filename))
         tried == log # <<>> /\ log[Len(log)] = <<"read", path>> IN
       /\ log' = Append(log, <<"read", path>>)
       /\ IF fields.ok
            THEN /\ pc' = "await" /\ pending' = fields.val /\ result' = None
            ELSE IF tried
              THEN /\ pc' = "threw" /\ pending' = None /\ result' = fields.err
              ELSE /\ pc' = "loop" /\ pending' = None /\ result' = None
  /\ UNCHANGED <<dir, dirError, call, arg, filenames, idx, posts, other>>

\* the await is left out: the post is pushed as it is before markdownToHtml has
\* finished, and the loop goes on to the next filename at once
getPostFromFilenameNoAwait ==
  /\ call = "getAllPosts" /\ pc = "loop"
  /\ idx < Len(filenames)
  /\ LET filename == filenames[idx + 1]
         fields == PostFields(dir, getSlugFromFilename(filename)) IN
       IF fields.ok
         THEN /\ pc' = "loop" /\ posts' = Append(posts, fields.val)
              /\ idx' = idx + 1 /\ result' = None
         ELSE /\ pc' = "threw" /\ posts' = posts
              /\ idx' = idx /\ result' = fields.err
  /\ log' = Append(log, <<"read", getFilepathFromSlug(getSlugFromFilename(filenames[idx + 1]))>>)
  /\ UNCHANGED <<dir, dirError, call, arg, filenames, pending, other>>

\* one turn of the loop: getPostFromFilename(filename) up to its await or exception
getPostFromFilename ==
  /\ call = "getAllPosts" /\ pc = "loop"
  /\ idx < Len(filenames)
  /\ LET filename == filenames[idx + 1]
         fields == PostFields(dir, getSlugFromFilename(filename)) IN
       IF fields.ok
         THEN /\ pc' = "await" /\ pending' = fields.val /\ result' = None
         ELSE /\ pc' = "threw" /\ pending' = None /\ result' = fields.err
  /\ UNCHANGED <<dir, dirError, call, arg, filenames, idx, posts>>
  /\ log' = Append(log, <<"read", getFilepathFromSlug(getSlugFromFilename(filenames[idx + 1]))>>)
  /\ UNCHANGED other

\* the markdown source is dropped from the post before it is pushed
PushPostWithoutContent ==
  /\ call = "getAllPosts" /\ pc = "await"
  /\ posts' = Append(posts, [Rendered(pending) EXCEPT !.content = <<>>])
  /\ idx' = idx + 1
  /\ pending' = None
  /\ pc' = "loop"
  /\ UNCHANGED <<dir, dirError, call, arg, filenames, result>>
  /\ UNCHANGED <<log, other>>

\* the rendered post is also written back over the file it was read from
PushPostWritesBack ==
  /\ call = "getAllPosts" /\ pc = "await"
  /\ posts' = Append(posts, Rendered(pending))
  /\ idx' = idx + 1
  /\ pending' = None
  /\ pc' = "loop"
  /\ dir' = [i \in DOMAIN dir |->
               IF dir[i].name = getFilepathFromSlug(pending.slug)
                 THEN [dir[i] EXCEPT !.content = << <<"rendered">> >>] ELSE dir[i]]
  /\ UNCHANGED <<dirError, call, arg, filenames, result>>
  /\ UNCHANGED <<log, other>>

\* the awaited post arrives: posts.push(post), and the loop moves on
PushPost ==
  /\ call = "getAllPosts" /\ pc = "await"
  /\ posts' = Append(posts, Rendered(pending))
  /\ idx' = idx + 1
  /\ pending' = None
  /\ pc' = "loop"
  /\ UNCHANGED <<dir, dirError, call, arg, filenames, result>>
  /\ UNCHANGED <<log, other>>

\* the array is sorted before the last post is pushed
getAllPostsReturnEarly ==
  /\ call = "getAllPosts" /\ pc = "loop"
  /\ idx = Len(filenames)
  /\ result' = ArraySort(SubSeq(posts, 1, Len(posts) - 1))
  /\ pc' = "returned"
  /\ UNCHANGED <<dir, dirError, call, arg, filenames, idx, posts, pending>>
  /\ UNCHANGED <<log, other>>

\* after the loop: return posts.sort(...)
getAllPostsReturn ==
  /\ call = "getAllPosts" /\ pc = "loop"
  /\ idx = Len(filenames)
  /\ result' = ArraySort(posts)
  /\ pc' = "returned"
  /\ UNCHANGED <<dir, dirError, call, arg, filenames, idx, posts, pending>>
  /\ UNCHANGED <<log, other>>

\* what React shows for {value}: nothing for undefined
Shown(value) == IF value = NoTitle THEN "" ELSE value

\* the list is rendered from the last post to the first
ListItemsReversed(allPosts) ==
  [i \in DOMAIN allPosts |->
     LET post == allPosts[Len(allPosts) + 1 - i] IN
     [key |-> post.slug,
      href |-> <<"posts/", post.slug>>,
      text |-> <<post.friendlyDate, ": ", Shown(post.title)>>]]

\* the links go to the files: posts/<slug>.md
ListItemsLinkToFile(allPosts) ==
  [i \in DOMAIN allPosts |->
     LET post == allPosts[i] IN
     [key |-> post.slug,
      href |-> <<"posts/", getFilenameFromSlug(post.slug)>>,
      text |-> <<post.friendlyDate, ": ", Shown(post.title)>>]]

\* posts.map(post => <li key={post.slug}><Link href={`posts/${post.slug}`}>
\*   {post.friendlyDate}: {post.title}</Link></li>)
ListItems(allPosts) ==
  [i \in DOMAIN allPosts |->
     LET post == allPosts[i] IN
     [key |-> post.slug,
      href |-> <<"posts/", post.slug>>,
      text |-> <<post.friendlyDate, ": ", Shown(post.title)>>]]

\* the home page: const posts = await getAllPosts() has returned, and Page
\* returns the list
Page ==
  /\ call = "getAllPosts" /\ pc = "returned"
  /\ call' = "Page"
  /\ posts' = result
  /\ result' = ListItems(result)
  /\ UNCHANGED <<dir, dirError, pc, arg, filenames, idx, pending>>
  /\ UNCHANGED <<log, other>>

Next ==
  \/ \E f \in Files : WriteFile(f)
  \/ getAllSlugs
  \/ \E slug \in SlugArgs : getPostFromSlug(slug)
  \/ getPostFromSlugReturn
  \/ getAllPosts
  \/ getPostFromFilename
  \/ PushPost
  \/ getAllPostsReturn
  \/ Page

Spec == Init /\ [][Next]_vars

(* ---------------- the slug <-> filename transforms alone --------------- *)
InitSlug ==
  /\ arg \in Strings
  /\ call = "none"
  /\ pc = "idle"
  /\ dir = <<>>
  /\ dirError = "none"
  /\ filenames = None
  /\ idx = 0
  /\ posts = None
  /\ pending = None
  /\ result = None
  /\ log = <<>>
  /\ other = NoCall

\* result := getFilenameFromSlug(arg)
ApplyFilenameFromSlug ==
  /\ call = "none"
  /\ call' = "getFilenameFromSlug"
  /\ pc' = "returned"
  /\ result' = getFilenameFromSlug(arg)
  /\ UNCHANGED <<dir, dirError, arg, filenames, idx, posts, pending>>
  /\ UNCHANGED <<log, other>>

\* result := getSlugFromFilename(result)
ApplySlugFromFilename ==
  /\ call = "getFilenameFromSlug"
  /\ call' = "getSlugFromFilename"
  /\ pc' = "returned"
  /\ result' = getSlugFromFilename(result)
  /\ UNCHANGED <<dir, dirError, arg, filenames, idx, posts, pending>>
  /\ UNCHANGED <<log, other>>

NextSlug == ApplyFilenameFromSlug \/ ApplySlugFromFilename

SpecSlug == InitSlug /\ [][NextSlug]_vars

(* ------------- two posts, over every date of the calendar -------------- *)
Post(stem, date) ==
  [name |-> getFilenameFromSlug(stem), title |-> "T", date |-> date, content |-> Body]

\* a.md has any date of the calendar, b.md has the same date or the next day
InitDate ==
  /\ \E d1 \in CalendarDates :
       \E d2 \in {d1, <<valueOf(d1) + 1>>} \cap CalendarDates :
         dir = <<Post(<<"a">>, d1), Post(<<"b">>, d2)>>
  /\ dirError = "none"
  /\ call = "none"
  /\ pc = "idle"
  /\ arg = None
  /\ filenames = None
  /\ idx = 0
  /\ posts = None
  /\ pending = None
  /\ result = None
  /\ log = <<>>
  /\ other = NoCall

NextDate ==
  \/ \E slug \in {<<"a">>, <<"b">>} : getPostFromSlug(slug)
  \/ getPostFromSlugReturn
  \/ getAllPosts
  \/ getPostFromFilename
  \/ PushPost
  \/ getAllPostsReturn

SpecDate == InitDate /\ [][NextDate]_vars

(* ------- the build: the pages of the site, generated side by side ------ *)
\* the content directories of the build: a.md with a title, and with it b.md or
\* a file named a; each has any date or none
BuildDirs ==
  { <<f1, f2>> : f1 \in { f \in Files : f.name = <<"a">> \o Ext /\ f.title # NoTitle },
                f2 \in { f \in Files : f.name \in {<<"b">> \o Ext, <<"a">>} } }

InitBuild ==
  /\ dir \in BuildDirs
  /\ dirError = "none"
  /\ call = "none"
  /\ pc = "idle"
  /\ arg = None
  /\ filenames = None
  /\ idx = 0
  /\ posts = None
  /\ pending = None
  /\ result = None
  /\ log = <<>>
  /\ other = NoCall

\* the locals of the invocation that runs
Frame ==
  [call |-> call, pc |-> pc, arg |-> arg, filenames |-> filenames, idx |-> idx,
   posts |-> posts, pending |-> pending, result |-> result, log |-> log]

\* the frame as it is put aside: a call that waits at its await while the other
\* invocation waits at its own has that noted in its log
Suspended ==
  IF pc = "await" /\ other.pc = "await" /\ <<"suspended">> \notin { log[i] : i \in DOMAIN log }
    THEN [Frame EXCEPT !.log = Append(log, <<"suspended">>)]
    ELSE Frame

\* posts is one array of the module, not a local of each invocation
SwitchSharedPosts ==
  /\ pc \in {"idle", "await", "returned", "threw"}
  /\ other # Frame
  /\ other' = Suspended
  /\ call' = other.call
  /\ pc' = other.pc
  /\ arg' = other.arg
  /\ filenames' = other.filenames
  /\ idx' = other.idx
  /\ posts' = posts
  /\ pending' = other.pending
  /\ result' = other.result
  /\ log' = other.log
  /\ UNCHANGED <<dir, dirError>>

\* the event loop: the invocation that runs has reached its await (or has not
\* started, or is over), and the other invocation goes on with its own locals
Switch ==
  /\ pc \in {"idle", "await", "returned", "threw"}
  /\ other # Frame
  /\ other' = Suspended
  /\ call' = other.call
  /\ pc' = other.pc
  /\ arg' = other.arg
  /\ filenames' = other.filenames
  /\ idx' = other.idx
  /\ posts' = other.posts
  /\ pending' = other.pending
  /\ result' = other.result
  /\ log' = other.log
  /\ UNCHANGED <<dir, dirError>>

\* the parameters keep one of each slug
StaticParamsDistinct(slugs) ==
  LET Distinct(i) == \A j \in 1..(i - 1) : slugs[j] # slugs[i]
      kept == { i \in DOMAIN slugs : Distinct(i) }
      Nth(n) == CHOOSE i \in kept : Cardinality({ j \in kept : j <= i }) = n IN
  [n \in 1..Cardinality(kept) |-> [slug |-> slugs[Nth(n)]]]

\* slugs.map(slug => ({ slug }))
StaticParams(slugs) == [i \in DOMAIN slugs |-> [slug |-> slugs[i]]]

\* generateStaticParams() of the post page: getAllSlugs() has returned
generateStaticParams ==
  /\ call = "getAllSlugs" /\ pc = "returned"
  /\ call' = "generateStaticParams"
  /\ result' = StaticParams(result)
  /\ UNCHANGED <<dir, dirError, pc, arg, filenames, idx, posts, pending, log, other>>

\* generateMetadata({ params }) of the post page: its getPostFromSlug(params.slug)
\* has returned, the title of the page is the title of the post
generateMetadata ==
  /\ call = "getPostFromSlug" /\ pc = "returned"
  /\ call' = "generateMetadata"
  /\ result' = [title |-> result.title]
  /\ UNCHANGED <<dir, dirError, pc, arg, filenames, idx, posts, pending, log, other>>

\* Page({ params }) of the post page: its getPostFromSlug(params.slug) has
\* returned, the page shows the title and the rendered markdown of the post
PostPage ==
  /\ call = "getPostFromSlug" /\ pc = "returned"
  /\ call' = "PostPage"
  /\ result' = [title |-> result.title, html |-> result.contentHtml]
  /\ UNCHANGED <<dir, dirError, pc, arg, filenames, idx, posts, pending, log, other>>

NextBuild ==
  \/ getAllSlugs
  \/ generateStaticParams
  \/ \E slug \in {<<"a">>, <<"b">>} : getPostFromSlug(slug)
  \/ getPostFromSlugReturn
  \/ generateMetadata
  \/ PostPage
  \/ getAllPosts
  \/ getPostFromFilename
  \/ PushPost
  \/ getAllPostsReturn
  \/ Page
  \/ Switch

SpecBuild == InitBuild /\ [][NextBuild]_vars

(* ------------- getAllPosts as the one job of a build, run on ----------- *)
\* the directory is any directory of the build or a part of one, or it cannot
\* be listed
InitBatch ==
  /\ \/ /\ dirError = "none"
        /\ \E d \in BuildDirs : \E n \in 0..Len(d) : dir = SubSeq(d, 1, n)
     \/ /\ dirError \in DirErrors
        /\ dir = <<>>
  /\ call = "none"
  /\ pc = "idle"
  /\ arg = None
  /\ filenames = None
  /\ idx = 0
  /\ posts = None
  /\ pending = None
  /\ result = None
  /\ log = <<>>
  /\ other = NoCall

NextBatch ==
  \/ getAllPosts
  \/ getPostFromFilename
  \/ PushPost
  \/ getAllPostsReturn

\* a call that has been made is run on: the loop takes its next turn, an awaited
\* post arrives, and the function returns after the loop
SpecBatch ==
  /\ InitBatch /\ [][NextBatch]_vars
  /\ WF_vars(getPostFromFilename) /\ WF_vars(PushPost) /\ WF_vars(getAllPostsReturn)

(* --------------------- the comparator of sort alone -------------------- *)
\* posts holds two records as getAllPosts has them before it sorts: the first of
\* any date of the calendar, the second of the day before, the same day or the
\* day after
InitCompare ==
  /\ \E d1 \in CalendarDates :
       \E d2 \in {<<valueOf(d1) - 1>>, d1, <<valueOf(d1) + 1>>} \cap CalendarDates :
         LET d == <<Post(<<"a">>, d1), Post(<<"b">>, d2)>> IN
         posts = <<Rendered(PostFields(d, <<"a">>).val),
                   Rendered(PostFields(d, <<"b">>).val)>>
  /\ dir = <<>>
  /\ dirError = "none"
  /\ call = "none"
  /\ pc = "idle"
  /\ arg = None
  /\ filenames = None
  /\ idx = 0
  /\ pending = None
  /\ result = None
  /\ log = <<>>
  /\ other = NoCall

\* result := the comparator's value for (posts[1], posts[2])
ApplyCompare ==
  /\ call = "none"
  /\ call' = "compare"
  /\ pc' = "returned"
  /\ result' = Compare(posts[1], posts[2])
  /\ UNCHANGED <<dir, dirError, arg, filenames, idx, posts, pending>>
  /\ UNCHANGED <<log, other>>

NextCompare == ApplyCompare

SpecCompare == InitCompare /\ [][NextCompare]_vars

(* ------------- files that change between one call and the next --------- *)
\* what the author can turn a file into
EditedFiles == [name : FileNames, title : Titles \cup {NoTitle},
                date : Dates \cup {NoDate}, content : Bodies \cup {EditedBody}]

\* the last call has returned, and it has read the file named name
ReadByLastCall(name) ==
  /\ pc = "returned"
  /\ \/ call = "getPostFromSlug" /\ name = getFilepathFromSlug(arg)
     \/ call = "getAllPosts"

InitEdit ==
  /\ dir = <<Post(<<"a">>, <<FirstPostDay + 1>>), Post(<<"b">>, <<FirstPostDay + 1>>)>>
  /\ dirError = "none"
  /\ call = "none"
  /\ pc = "idle"
  /\ arg = None
  /\ filenames = None
  /\ idx = 0
  /\ posts = None
  /\ pending = None
  /\ result = None
  /\ log = <<>>
  /\ other = NoCall

\* between two calls the author rewrites a file that the last call has read
EditFile(i, f) ==
  /\ ReadByLastCall(dir[i].name)
  /\ f.name = dir[i].name
  /\ f # dir[i]
  /\ dir' = [dir EXCEPT ![i] = f]
  /\ UNCHANGED <<dirError, call, pc, arg, filenames, idx, posts, pending, result>>
  /\ UNCHANGED <<log, other>>

\* between two calls the author deletes a file that the last call has read
DeleteFile(i) ==
  /\ ReadByLastCall(dir[i].name)
  /\ dir' = [k \in 1..(Len(dir) - 1) |-> IF k < i THEN dir[k] ELSE dir[k + 1]]
  /\ UNCHANGED <<dirError, call, pc, arg, filenames, idx, posts, pending, result>>
  /\ UNCHANGED <<log, other>>

NextEdit ==
  \/ \E i \in DOMAIN dir : \E f \in EditedFiles : EditFile(i, f)
  \/ \E i \in DOMAIN dir : DeleteFile(i)
  \/ \E slug \in {<<"a">>, <<"b">>} : getPostFromSlug(slug)
  \/ getPostFromSlugReturn
  \/ getAllPosts
  \/ getPostFromFilename
  \/ PushPost
  \/ getAllPostsReturn

SpecEdit == InitEdit /\ [][NextEdit]_vars

(* ------------------------------ properties ----------------------------- *)
Range(seq) == { seq[i] : i \in DOMAIN seq }

SeqToBag(seq) == [x \in Range(seq) |-> Cardinality({ i \in DOMAIN seq : seq[i] = x })]

RECURSIVE WithDate(_, _)
WithDate(seq, date) ==
  IF seq = <<>> THEN <<>>
  ELSE IF Head(seq).date = date
    THEN <<Head(seq)>> \o WithDate(Tail(seq), date)
    ELSE WithDate(Tail(seq), date)

AllPostsReturned == call = "getAllPosts" /\ pc = "returned"

\* the file getPostFromSlug(arg) reads, when there is one
ArgFile ==
  IF getFilenameFromSlug(arg) \in Names(dir)
    THEN Value(CHOOSE f \in Range(dir) : f.name = getFilenameFromSlug(arg))
    ELSE Thrown("ENOENT")

\* C1: whenever getAllPosts() has returned, every adjacent pair (p1, p2) of the
\* returned sequence has p1.date >= p2.date, whatever the order of the listing;
\* a.md dated day 2 and b.md dated day 1 give [a, b] in either listing order.
C1_SortedByDateDescending ==
  AllPostsReturned =>
    /\ \A i \in 1..(Len(result) - 1) :
         valueOf(result[i].date) >= valueOf(result[i + 1].date)
    /\ ( /\ Len(dir) = 2
         /\ \E i, j \in DOMAIN dir :
              /\ dir[i].name = <<"a">> \o Ext /\ dir[i].date = <<FirstPostDay + 2>>
              /\ dir[j].name = <<"b">> \o Ext /\ dir[j].date = <<FirstPostDay + 1>> )
       => [k \in DOMAIN result |-> result[k].slug] = << <<"a">>, <<"b">> >>

\* getAllPosts() returned three posts or more, and the sort had to reorder them
C1_Witness ==
  /\ AllPostsReturned
  /\ Len(result) >= 3
  /\ result # posts
  /\ \E i, j \in DOMAIN result : result[i].date # result[j].date

\* C2: for every filename f that the listing of the content directory enumerates,
\* getFilenameFromSlug(getSlugFromFilename(f)) = f; stated on the slugs that
\* getAllSlugs() returned for the listing.
C2_FilenameRoundTrip ==
  (call = "getAllSlugs" /\ pc = "returned") =>
    \A i \in DOMAIN dir : getFilenameFromSlug(result[i]) = readdirSync(dir)[i]

\* C3: for every slug string s, getSlugFromFilename(getFilenameFromSlug(s)) = s.
C3_SlugRoundTrip ==
  call = "getSlugFromFilename" => result = arg

\* the round trip was made on a slug that itself contains ".md"
C3_Witness ==
  /\ call = "getSlugFromFilename"
  /\ \E i \in 1..Len(arg) : i + Len(Ext) - 1 <= Len(arg)
                            /\ SubSeq(arg, i, i + Len(Ext) - 1) = Ext
  /\ ~EndsWith(arg, Ext)

\* C4: getPostFromSlug on a file whose metadata has no title fails and produces
\* no record.
C4_MissingTitleFails ==
  (call = "getPostFromSlug" /\ ArgFile.ok /\ ArgFile.val.title = NoTitle) =>
    pc = "threw" /\ pending = None

\* C5: getPostFromSlug on a file whose metadata has no date fails with an error
\* and produces no record.
C5_MissingDateFails ==
  (call = "getPostFromSlug" /\ ArgFile.ok /\ ArgFile.val.date = NoDate) =>
    pc = "threw" /\ result = "TypeError" /\ pending = None

\* getPostFromSlug was called on a file that has a title and no date
C5_Witness ==
  /\ call = "getPostFromSlug"
  /\ ArgFile.ok /\ ArgFile.val.date = NoDate /\ ArgFile.val.title # NoTitle
  /\ pc = "threw"

\* C6: getPostFromSlug(s) for a slug s with no file s.md in the content directory
\* fails with a file-not-found error and returns no record.
C6_MissingFileFails ==
  (call = "getPostFromSlug" /\ getFilenameFromSlug(arg) \notin Names(dir)) =>
    pc = "threw" /\ result = "ENOENT" /\ pending = None

\* getPostFromSlug("a") was called on a directory that holds a file named "a"
\* and no a.md
C6_Witness ==
  /\ call = "getPostFromSlug"
  /\ arg \in Names(dir)
  /\ getFilenameFromSlug(arg) \notin Names(dir)
  /\ pc = "threw"

\* C7: in the sequence getAllPosts() returns, the posts of one date stand in the
\* order in which the listing enumerated their files.
C7_StableOnTies ==
  AllPostsReturned =>
    \A date \in Dates : WithDate(result, date) = WithDate(posts, date)

\* getAllPosts() reordered three posts or more, two of them distinct posts of one date
C7_Witness ==
  /\ AllPostsReturned
  /\ Len(result) >= 3
  /\ result # posts
  /\ \E i, j \in DOMAIN result :
       i # j /\ result[i].date = result[j].date /\ result[i].slug # result[j].slug

\* C8: when getAllPosts() succeeds on a listing of n files it returns n records,
\* one per enumerated file, and the multiset of their slugs is that of
\* getAllSlugs() on the same directory.
C8_EveryPostReturned ==
  AllPostsReturned =>
    /\ Len(result) = Len(readdirSync(dir))
    /\ SeqToBag(result) = SeqToBag(posts)
    /\ \A i \in DOMAIN posts : posts[i].slug = getSlugFromFilename(readdirSync(dir)[i])
    /\ SeqToBag([k \in DOMAIN result |-> result[k].slug])
         = SeqToBag(SlugsOf(readdirSync(dir)))

\* getAllPosts() returned the posts of a directory of three files or more
C8_Witness ==
  /\ AllPostsReturned
  /\ Len(dir) >= 3
  /\ Len(result) = Len(dir)

\* C9: if the fetch of one post fails inside getAllPosts(), getAllPosts() fails;
\* it never returns a list that leaves the failing post out.
C9_NoPartialList ==
  call = "getAllPosts" =>
    /\ pc = "returned" =>
         /\ Len(result) = Len(filenames)
         /\ \A i \in DOMAIN filenames :
              PostFields(dir, getSlugFromFilename(filenames[i])).ok
    /\ (\E i \in 1..idx : ~PostFields(dir, getSlugFromFilename(filenames[i])).ok)
         => pc = "threw"
    /\ (idx < Len(filenames) /\ pc \notin {"loop", "await"}) =>
         /\ pc = "threw"
         /\ ~PostFields(dir, getSlugFromFilename(filenames[idx + 1])).ok
         /\ result = PostFields(dir, getSlugFromFilename(filenames[idx + 1])).err

\* getAllPosts() failed on a later file after it had built a post from an earlier one
C9_Witness ==
  /\ call = "getAllPosts"
  /\ pc = "threw"
  /\ Len(posts) >= 1
  /\ idx < Len(filenames)

\* C10: two different filenames of the content directory have different slugs;
\* stated on the slugs that getAllSlugs() returned for the listing.
C10_DistinctSlugs ==
  (call = "getAllSlugs" /\ pc = "returned") =>
    \A i, j \in DOMAIN result : i # j => result[i] # result[j]

\* the records that the call just finished has returned
ReturnedRecords ==
  IF call = "getPostFromSlug" /\ pc = "returned" THEN {result}
  ELSE IF AllPostsReturned THEN Range(result)
  ELSE {}

\* the number a string of decimal digits stands for; -1 when it is no such string
RECURSIVE Number(_)
Number(chars) ==
  IF chars = <<>> THEN 0
  ELSE LET c == chars[Len(chars)]
           rest == Number(SubSeq(chars, 1, Len(chars) - 1)) IN
       IF rest < 0 \/ c \notin Range(DigitChars) THEN -1
       ELSE 10 * rest + (CHOOSE n \in 0..9 : DigitChars[n + 1] = c)

DaysInMonth(y, m) ==
  IF m = 2 THEN (IF DaysInYear(y) = 366 THEN 29 ELSE 28)
  ELSE IF m \in {4, 6, 9, 11} THEN 30 ELSE 31

\* days from 1970-01-01 to the day d of month m of year y, counted in eras of 400 years
DaysFromCivil(y, m, d) ==
  LET yy == IF m <= 2 THEN y - 1 ELSE y
      era == yy \div 400
      yoe == yy - era * 400
      doy == ((153 * ((m + 9) % 12) + 2) \div 5) + d - 1
      doe == yoe * 365 + (yoe \div 4) - (yoe \div 100) + doy IN
  era * 146097 + doe - 719468

\* str is YYYY-MM-DD and names the calendar day with the day number day
IsYearMonthDay(str, day) ==
  /\ Len(str) = 10
  /\ str[5] = "-" /\ str[8] = "-"
  /\ LET y == Number(SubSeq(str, 1, 4))
         m == Number(SubSeq(str, 6, 7))
         d == Number(SubSeq(str, 9, 10)) IN
       /\ y >= 0 /\ m \in 1..12
       /\ d >= 1 /\ d <= DaysInMonth(y, m)
       /\ DaysFromCivil(y, m, d) = day

\* C11: in every record getPostFromSlug or getAllPosts returns, friendlyDate is
\* the year-month-day string of the record's date (2024-08-11 gives "2024-08-11"),
\* and two records with equal dates have equal friendlyDate.
C11_FriendlyDateOfDate ==
  /\ \A r \in ReturnedRecords :
       /\ IsYearMonthDay(r.friendlyDate, valueOf(r.date))
       /\ valueOf(r.date) = FirstPostDay + 2 =>
            r.friendlyDate = <<"2", "0", "2", "4", "-", "0", "8", "-", "1", "1">>
  /\ \A r1, r2 \in ReturnedRecords :
       r1.date = r2.date => r1.friendlyDate = r2.friendlyDate

\* getAllPosts() returned two posts that are both dated the leap day 2024-02-29
C11_Witness ==
  /\ AllPostsReturned
  /\ \E i, j \in DOMAIN result :
       /\ result[i].slug # result[j].slug
       /\ result[i].date = result[j].date
       /\ result[i].friendlyDate = <<"2", "0", "2", "4", "-", "0", "2", "-", "2", "9">>

\* C12: getAllSlugs() returns one slug per entry of the directory listing, in the
\* order of the listing, each the slug of the filename at the same place: the
\* name without its trailing .md, or the whole name when it has none.
C12_OneSlugPerEntry ==
  (call = "getAllSlugs" /\ pc = "returned") =>
    /\ Len(result) = Len(dir)
    /\ \A i \in DOMAIN dir :
         IF EndsWith(dir[i].name, Ext)
           THEN result[i] \o Ext = dir[i].name
           ELSE result[i] = dir[i].name

\* getAllSlugs() returned for a full directory that lists c.md first and holds a
\* name without .md
C12_Witness ==
  /\ call = "getAllSlugs" /\ pc = "returned"
  /\ Len(dir) = MaxFiles
  /\ dir[1].name = getFilenameFromSlug(<<"c">>)
  /\ \E i \in DOMAIN dir : ~EndsWith(dir[i].name, Ext)

\* C13: when the content directory is missing or unreadable, getAllSlugs() and
\* getAllPosts() fail with the I/O error of the listing and return no sequence.
C13_ListingErrorFails ==
  (dirError # "none" /\ call \in {"getAllSlugs", "getAllPosts"}) =>
    /\ pc = "threw"
    /\ result = dirError
    /\ result \in DirErrors

\* getAllPosts() was called with the content directory missing
C13_Witness ==
  /\ dirError = "ENOENT"
  /\ call = "getAllPosts"
  /\ pc = "threw"

\* what the calls work on, apart from the directory
callVars == <<call, pc, arg, filenames, idx, posts, pending, result>>

\* C14: no step of getAllSlugs, getPostFromSlug or getAllPosts, succeeding or
\* failing, changes the content directory: its entries, their contents and
\* whether it can be listed stay as they are.
C14_CallsOnlyRead ==
  [][callVars' # callVars => (dir' = dir /\ dirError' = dirError)]_vars

\* getAllPosts() has returned the posts of a full directory, which still lists
\* the files as the call found them
C14_Witness ==
  /\ AllPostsReturned
  /\ Len(dir) = MaxFiles
  /\ filenames = readdirSync(dir)
  /\ Len(result) = MaxFiles

\* the record r carries the title, date and body that the file <r.slug>.md of d has
BuiltFrom(r, d) ==
  \E i \in DOMAIN d :
    /\ d[i].name = r.slug \o Ext
    /\ r.title = d[i].title
    /\ r.date = d[i].date
    /\ r.content = d[i].content

\* C16: nothing is cached between calls: whenever getPostFromSlug or getAllPosts
\* returns, each record it returns is built from the file as it is now, and
\* getAllPosts returns one record per file that the directory holds now, whatever
\* earlier calls have read before the files changed.
C16_NothingCached ==
  [][ /\ (call' = "getPostFromSlug" /\ pc = "await" /\ pc' = "returned")
           => BuiltFrom(result', dir')
      /\ (call' = "getAllPosts" /\ pc = "loop" /\ pc' = "returned")
           => /\ Len(result') = Len(dir')
              /\ \A k \in DOMAIN result' : BuiltFrom(result'[k], dir') ]_vars

\* getPostFromSlug returned the edited body of a file that an earlier call had
\* read before the edit
C16_Witness ==
  /\ call = "getPostFromSlug" /\ pc = "returned"
  /\ result.content = EditedBody
  /\ BuiltFrom(result, dir)

\* C17: every record in the sequence getAllPosts() returns has the six fields
\* with the values getPostFromSlug produces for its slug, and the returned
\* sequence holds the pushed records, each as often as it was pushed: the sort
\* only reorders.
C17_RecordsNotMutated ==
  AllPostsReturned =>
    /\ \A k \in DOMAIN result :
         /\ DOMAIN result[k] =
              {"title", "date", "slug", "friendlyDate", "content", "contentHtml"}
         /\ PostFields(dir, result[k].slug).ok
         /\ result[k] = Rendered(PostFields(dir, result[k].slug).val)
    /\ SeqToBag(result) = SeqToBag(posts)

\* getAllPosts() returned a full directory's posts in another order than it had
\* pushed them, one of them with an undefined title
C17_Witness ==
  /\ AllPostsReturned
  /\ Len(result) = MaxFiles
  /\ result # posts
  /\ \E k \in DOMAIN result : result[k].title = NoTitle

\* C18: for every filename f that getAllPosts() has gone through, the file read
\* to build f's record is f itself: the path resolved from the slug of f names f,
\* also when f does not end in .md.
C18_ReadsEnumeratedFile ==
  call = "getAllPosts" =>
    \A i \in DOMAIN filenames :
      (i <= idx \/ (i = idx + 1 /\ pc \in {"await", "threw"})) =>
        getFilepathFromSlug(getSlugFromFilename(filenames[i])) = filenames[i]

\* C19: when getPostFromSlug(s) succeeds, the slug of the record it returns is s,
\* and title, date and content are those of the one file <s>.md of the directory.
C19_RecordOfSlugFile ==
  (call = "getPostFromSlug" /\ pc = "returned") =>
    /\ result.slug = arg
    /\ Cardinality({ i \in DOMAIN dir : dir[i].name = arg \o Ext }) = 1
    /\ \A i \in DOMAIN dir :
         dir[i].name = arg \o Ext =>
           /\ result.title = dir[i].title
           /\ result.date = dir[i].date
           /\ result.content = dir[i].content

\* getPostFromSlug("a") returned while the directory holds a.md and, with another
\* date, a file named "a"
C19_Witness ==
  /\ call = "getPostFromSlug" /\ pc = "returned"
  /\ arg = <<"a">>
  /\ \E i, j \in DOMAIN dir :
       /\ dir[i].name = <<"a">> /\ dir[j].name = <<"a">> \o Ext
       /\ dir[i].date # dir[j].date

\* the lines of the text after its metadata block: the block runs from the ---
\* of line 1 to the next --- line
AfterMetadataBlock(text) ==
  { SubSeq(text, k + 1, Len(text)) :
      k \in { i \in 2..Len(text) :
                /\ text[i] = Delimiter
                /\ \A j \in 2..(i - 1) : text[j] # Delimiter } }

\* C20: in the record getPostFromSlug(s) returns, content is the text of <s>.md
\* without its metadata block (what follows the line that closes the block, a
\* later --- line of the body included), and contentHtml is
\* markdownToHtml(content).
C20_ContentIsBodyAndRendered ==
  (call = "getPostFromSlug" /\ pc = "returned") =>
    /\ \A i \in DOMAIN dir :
         dir[i].name = arg \o Ext =>
           /\ FileText(dir[i])[1] = Delimiter
           /\ AfterMetadataBlock(FileText(dir[i])) = {result.content}
    /\ result.contentHtml = <<"<p>", result.content, "</p>">>

\* getPostFromSlug returned a record of a file that has a title and a date in
\* its metadata block and a --- line in its body
C20_Witness ==
  /\ call = "getPostFromSlug" /\ pc = "returned"
  /\ result.title # NoTitle
  /\ \E k \in DOMAIN result.content : result.content[k] = Delimiter
  /\ result.contentHtml[2] = result.content

\* C28: the comparator getAllPosts hands to sort never returns 0: it returns -1
\* exactly when post1.date is later than post2.date and 1 otherwise, so for two
\* posts of one date it returns 1 in either order.
C28_ComparatorNeverZero ==
  call = "compare" =>
    /\ result \in {-1, 1}
    /\ result = -1 <=> posts[1].date[1] > posts[2].date[1]
    /\ posts[1].date = posts[2].date => result = 1

\* the comparator has been applied to two posts of one date and has returned 1
C28_Witness ==
  /\ call = "compare"
  /\ posts[1].date = posts[2].date
  /\ posts[1].slug # posts[2].slug
  /\ result = 1

\* C25: the home page has one list item per record getAllPosts returned, in the
\* order it returned them (date descending); each item shows the friendlyDate and
\* the title of its record (nothing for a record without title) and links to
\* posts/<slug> of the same record.
C25_HomePageListsPosts ==
  [][(call = "getAllPosts" /\ call' = "Page") =>
       /\ Len(result') = Len(result)
       /\ \A i \in DOMAIN result :
            /\ result'[i].href = <<"posts/", result[i].slug>>
            /\ result'[i].text[1] = result[i].friendlyDate
            /\ result[i].title # NoTitle => result'[i].text[3] = result[i].title
       /\ \A i \in 1..(Len(result') - 1) :
            \E p, q \in Range(posts') :
              /\ result'[i].href[2] = p.slug /\ result'[i + 1].href[2] = q.slug
              /\ p.date[1] >= q.date[1]]_vars

\* the home page shows three posts, not all of one date
C25_Witness ==
  /\ call = "Page"
  /\ Len(result) = 3
  /\ \E i, j \in DOMAIN posts : posts[i].date # posts[j].date
  /\ \A i \in DOMAIN result : result[i].text[3] = "T"

\* the paths the call has read so far, in the order it read them
Reads(l) ==
  LET IsRead(e) == e[1] = "read"
      reads == SelectSeq(l, IsRead) IN
  [i \in DOMAIN reads |-> reads[i][2]]

\* C22: getAllPosts builds the posts one at a time in listing order: the i-th
\* file it reads is the file of entry i, and when it reads the file of entry i+1
\* the records of entries 1..i are rendered and appended; a failure on entry i
\* leaves no record i, so no later file is read.
C22_OneAtATimeInListingOrder ==
  call = "getAllPosts" =>
    LET reads == Reads(log) IN
    /\ Len(reads) <= Len(filenames)
    /\ \A i \in DOMAIN reads :
         reads[i] = getSlugFromFilename(filenames[i]) \o Ext
    /\ Len(posts) >= Len(reads) - 1
    /\ \A i \in 1..(Len(reads) - 1) :
         /\ posts[i].slug \o Ext = reads[i]
         /\ posts[i].contentHtml = <<"<p>", posts[i].content, "</p>">>
    /\ pc = "threw" => Len(posts) = Len(reads) - 1 \/ reads = <<>>

\* getAllPosts failed on the second of three entries: it has read two files and
\* holds the record of the first
C22_Witness ==
  /\ call = "getAllPosts" /\ pc = "threw"
  /\ Len(filenames) = 3
  /\ Len(Reads(log)) = 2
  /\ Len(posts) = 1

\* the records of the files of names[1..n], fetched one after the other, or the
\* error of the first fetch that fails
RECURSIVE FetchedAlone(_, _, _)
FetchedAlone(d, names, n) ==
  IF n = 0 THEN Value(<<>>)
  ELSE LET before == FetchedAlone(d, names, n - 1)
           fields == PostFields(d, getSlugFromFilename(names[n])) IN
       IF ~before.ok THEN before
       ELSE IF ~fields.ok THEN fields
       ELSE Value(Append(before.val, Rendered(fields.val)))

\* what the call f(a) gives on directory d when nothing else runs
Alone(d, f, a) ==
  IF f = "getPostFromSlug"
    THEN LET fields == PostFields(d, a) IN
         IF fields.ok THEN Value(Rendered(fields.val)) ELSE fields
    ELSE LET fetched == FetchedAlone(d, readdirSync(d), Len(d)) IN
         IF fetched.ok THEN Value(ArraySort(fetched.val)) ELSE fetched

\* the outcome in frame is the outcome of the same call run alone
SameAsAlone(frame) ==
  (frame.call \in {"getPostFromSlug", "getAllPosts"} /\ frame.pc \in {"returned", "threw"}) =>
    LET alone == Alone(dir, frame.call, frame.arg) IN
    IF frame.pc = "returned"
      THEN alone.ok /\ frame.result = alone.val
      ELSE ~alone.ok /\ frame.result = alone.err

\* C21: invocations of getPostFromSlug and getAllPosts that run interleaved, each
\* put aside at its await while the other goes on, return (or throw) what the
\* same call returns when it runs alone on the same directory.
C21_InterleavedAsAlone ==
  SameAsAlone(Frame) /\ SameAsAlone(other)

\* getAllPosts has returned two posts after it waited at an await while the other
\* invocation, a getAllPosts as well, waited at its own
C21_Witness ==
  /\ call = "getAllPosts" /\ pc = "returned"
  /\ Len(result) = 2
  /\ <<"suspended">> \in Range(log)
  /\ other.call = "getAllPosts"
  /\ <<"suspended">> \in Range(other.log)

Listings(l) == Cardinality({ i \in DOMAIN l : l[i] = <<"readdir">> })

\* C27: getAllPosts terminates on every directory: it lists the directory
\* exactly once, reads at most one file per listed entry, and then returns one
\* record per entry, sorted, or fails.
C27_GetAllPostsTerminates ==
  /\ [](call = "getAllPosts" =>
          /\ Listings(log) = 1
          /\ Len(Reads(log)) <= Len(filenames)
          /\ pc = "returned" =>
               /\ Len(result) = Len(filenames)
               /\ \A i \in 1..(Len(result) - 1) : result[i].date[1] >= result[i + 1].date[1])
  /\ (call = "getAllPosts" /\ pc \in {"loop", "await"}) ~> (pc \in {"returned", "threw"})

\* getAllPosts has returned two posts after one listing and two reads
C27_Witness ==
  /\ call = "getAllPosts" /\ pc = "returned"
  /\ Len(result) = 2
  /\ Listings(log) = 1
  /\ Len(Reads(log)) = 2

====
